---------------------------- MODULE Spec2Model ----------------------------
(***************************************************************************)
(* BlueairAwsDataUpdateCoordinator                                         *)
(* (custom_components/ha_blueair/blueair_aws_data_update_coordinator.py).  *)
(*                                                                         *)
(* The coordinator forwards property reads and set_* commands to a device  *)
(* client (blueair_api.DeviceAws) and is driven by the host's              *)
(* DataUpdateCoordinator / Debouncer, which it configures in __init__.     *)
(* The device client and the host objects are the environment of the       *)
(* class: a call into the device client either returns or raises, and the  *)
(* debouncer behaves as homeassistant.helpers.debounce.Debouncer does for  *)
(* the arguments given at lines 30-32.                                     *)
(***************************************************************************)
EXTENDS Integers, Sequences, FiniteSets, TLC

(***************************************************************************)
(* Python values, tagged with their type so that None, NotImplemented,     *)
(* bool, int and str stay distinct.                                        *)
(***************************************************************************)
PyInt(n) == [t |-> "int", v |-> n]
PyBool(b) == [t |-> "bool", v |-> b]
PyStr(s) == [t |-> "str", v |-> s]
PyNone == [t |-> "NoneType", v |-> "None"]
PyNotImplemented == [t |-> "NotImplementedType", v |-> "NotImplemented"]

(***************************************************************************)
(* Bounds of the model.                                                    *)
(***************************************************************************)
MaxCmds == 2        \* command invocations in a run of Spec
MaxPropCmds == 1    \* command invocations in a run of PropSpec
MaxSnap == 1        \* the device cloud answers a refresh with snapshot 0..MaxSnap

(***************************************************************************)
(* Names imported from .const (line 10).  Their values are not part of     *)
(* the coordinator; usages are taken relative to the threshold.            *)
(***************************************************************************)
const_DOMAIN == "DOMAIN"
FILTER_EXPIRED_THRESHOLD == 95

(***************************************************************************)
(* Arguments of __init__'s super().__init__ call (lines 25-33).            *)
(***************************************************************************)
cooldown == 5
immediate_BugTrue == TRUE
immediate == FALSE

(***************************************************************************)
(* blueair_api.ModelEnum: the members speed_count names, and two it does   *)
(* not name.                                                               *)
(***************************************************************************)
ModelEnum ==
    {"HUMIDIFIER_H35I", "MAX_211I", "MAX_311I", "PROTECT_7440I",
     "PROTECT_7470I", "T10I", "MAX_411I", "UNKNOWN"}

ModelValue(m) == [member |-> m, model_name |-> PyStr(m)]

VARIABLES
    dev,            \* self.blueair_api_device: the device client's attributes
    name,           \* self.name (DataUpdateCoordinator.name)
    manufacturer,   \* self._manufacturer
    cmd,            \* the set_* invocations
    deb,            \* the request_refresh_debouncer
    upd,            \* the _async_update_data invocations, per caller
    hist,           \* history: counters of requests and refreshes, the last update
    lastRead,       \* what the getters returned, if the step just taken read them
    env             \* the callers, the listeners and the device client: the number
                    \* of commands invoked, whether the interval timer is armed
                    \* (polling), whether the client keeps what it sent (records)

vars == <<dev, name, manufacturer, cmd, deb, upd, hist, lastRead, env>>

(***************************************************************************)
(* The forwarding properties (lines 46-148).                               *)
(***************************************************************************)
id == dev.uuid
device_name == dev.name
manufacturer_prop == manufacturer
model == dev.model.model_name
fan_speed == dev.fan_speed
is_on == dev.running
brightness == dev.brightness
child_lock == dev.child_lock
night_mode == dev.night_mode
temperature == dev.temperature
humidity == dev.humidity
voc == dev.tVOC
pm1 == dev.pm1
pm10 == dev.pm10
pm25_BugPm10 == dev.pm10
pm25 == dev.pm2_5
co2 == PyNotImplemented
online == dev.wifi_working
fan_auto_mode == dev.fan_auto_mode
wick_dry_mode == dev.wick_dry_mode
water_shortage == dev.water_shortage

(***************************************************************************)
(* speed_count (lines 71-86).                                              *)
(***************************************************************************)
speed_count_BugT10I ==
    IF dev.model.member = "HUMIDIFIER_H35I" THEN PyInt(64)
    ELSE IF dev.model.member \in
            {"MAX_211I", "MAX_311I", "PROTECT_7440I", "PROTECT_7470I", "T10I"}
         THEN PyInt(91)
    ELSE PyInt(100)

speed_count ==
    IF dev.model.member = "HUMIDIFIER_H35I" THEN PyInt(64)
    ELSE IF dev.model.member \in
            {"MAX_211I", "MAX_311I", "PROTECT_7440I", "PROTECT_7470I"}
         THEN PyInt(91)
    ELSE IF dev.model.member = "T10I" THEN PyInt(4)
    ELSE PyInt(100)

(***************************************************************************)
(* filter_expired (lines 150-158).  A function that ends without a return  *)
(* statement returns None.                                                 *)
(***************************************************************************)
filter_expired_BugWickFirst ==
    IF dev.wick_usage_percentage \notin {PyNotImplemented, PyNone}
    THEN PyBool(dev.wick_usage_percentage.v >= FILTER_EXPIRED_THRESHOLD)
    ELSE IF dev.filter_usage_percentage \notin {PyNotImplemented, PyNone}
    THEN PyBool(dev.filter_usage_percentage.v >= FILTER_EXPIRED_THRESHOLD)
    ELSE PyNone

filter_expired ==
    IF dev.filter_usage_percentage \notin {PyNotImplemented, PyNone}
    THEN PyBool(dev.filter_usage_percentage.v >= FILTER_EXPIRED_THRESHOLD)
    ELSE IF dev.wick_usage_percentage \notin {PyNotImplemented, PyNone}
    THEN PyBool(dev.wick_usage_percentage.v >= FILTER_EXPIRED_THRESHOLD)
    ELSE PyNone

Properties ==
    {"id", "device_name", "manufacturer", "model", "fan_speed", "speed_count",
     "is_on", "brightness", "child_lock", "night_mode", "temperature",
     "humidity", "voc", "pm1", "pm10", "pm25", "co2", "online",
     "fan_auto_mode", "wick_dry_mode", "water_shortage", "filter_expired"}

\* What a reader holds: nothing (NoRead), or the value each getter returned
\* in the step just taken.
NoRead == [read |-> FALSE, values |-> [p \in Properties |-> PyNone]]

(***************************************************************************)
(* The device client (blueair_api.DeviceAws).  Its code is outside the     *)
(* coordinator: a refresh replaces the readings by one of the snapshots    *)
(* the cloud may answer with, a filter or wick in use may wear by one      *)
(* percent, and a call may raise instead of returning.                     *)
(***************************************************************************)
DeviceNames == <<"Bedroom", "Office">>

UsageValues ==
    {PyNotImplemented, PyNone,
     PyInt(FILTER_EXPIRED_THRESHOLD - 1), PyInt(FILTER_EXPIRED_THRESHOLD),
     PyInt(FILTER_EXPIRED_THRESHOLD + 1)}

Snapshot(k) ==
    [name |-> PyStr(DeviceNames[(k % 2) + 1]),
     temperature |-> PyInt(20 + k), humidity |-> PyInt(40 + k),
     tVOC |-> PyInt(100 + k), pm1 |-> PyInt(1 + k), pm10 |-> PyInt(10 + k),
     pm2_5 |-> PyInt(5 + k),
     wifi_working |-> PyBool(k % 2 = 0), water_shortage |-> PyBool(k % 2 = 1)]

Wear(u) == IF u.t = "int" /\ u.v <= FILTER_EXPIRED_THRESHOLD THEN PyInt(u.v + 1) ELSE u

Refreshed(d, k, wear) ==
    LET s == Snapshot(k) IN
    [d EXCEPT !.name = s.name, !.temperature = s.temperature,
              !.humidity = s.humidity, !.tVOC = s.tVOC, !.pm1 = s.pm1,
              !.pm10 = s.pm10, !.pm2_5 = s.pm2_5,
              !.wifi_working = s.wifi_working,
              !.water_shortage = s.water_shortage,
              !.filter_usage_percentage =
                  IF wear THEN Wear(@) ELSE @,
              !.wick_usage_percentage =
                  IF wear THEN Wear(@) ELSE @]

InitialDevice(m, filter, wick) ==
    [uuid |-> PyStr("uuid-1"), name |-> PyStr(DeviceNames[1]), model |-> ModelValue(m),
     fan_speed |-> PyInt(0), running |-> PyBool(FALSE),
     brightness |-> PyInt(0), child_lock |-> PyBool(FALSE),
     night_mode |-> PyBool(FALSE), fan_auto_mode |-> PyBool(FALSE),
     wick_dry_mode |-> PyBool(FALSE),
     temperature |-> PyInt(19), humidity |-> PyInt(39), tVOC |-> PyInt(99),
     pm1 |-> PyInt(0), pm10 |-> PyInt(9), pm2_5 |-> PyInt(4),
     wifi_working |-> PyBool(TRUE), water_shortage |-> PyBool(FALSE),
     filter_usage_percentage |-> filter, wick_usage_percentage |-> wick]

\* What a device call may raise: an Exception subclass, or a BaseException
\* that is not an Exception (asyncio.CancelledError).
Errors == {"TimeoutError", "CancelledError"}
IsException(e) == e # "CancelledError"

\* The seven device methods, the attribute each one sets and the arguments
\* the callers pass.
Methods ==
    {"set_fan_speed", "set_running", "set_brightness", "set_child_lock",
     "set_night_mode", "set_fan_auto_mode", "set_wick_dry_mode"}

ArgsOf(m) ==
    IF m \in {"set_fan_speed", "set_brightness"} THEN {PyInt(1), PyInt(2)}
    ELSE {PyBool(TRUE), PyBool(FALSE)}

DeviceApplied(d, m, a) ==
    CASE m = "set_fan_speed" -> [d EXCEPT !.fan_speed = a]
      [] m = "set_running" -> [d EXCEPT !.running = a]
      [] m = "set_brightness" -> [d EXCEPT !.brightness = a]
      [] m = "set_child_lock" -> [d EXCEPT !.child_lock = a]
      [] m = "set_night_mode" -> [d EXCEPT !.night_mode = a]
      [] m = "set_fan_auto_mode" -> [d EXCEPT !.fan_auto_mode = a]
      [] m = "set_wick_dry_mode" -> [d EXCEPT !.wick_dry_mode = a]

(***************************************************************************)
(* request_refresh_debouncer = Debouncer(hass, _LOGGER, cooldown=5.0,      *)
(* immediate=False) (lines 30-32).  timer is the number of seconds left on *)
(* the pending call_later handle (NoTimer: no handle), execute_at_end the  *)
(* flag "run the job when the timer ends", locked the execute lock held    *)
(* while the job runs.                                                     *)
(***************************************************************************)
NoTimer == -1

schedule_timer(d) == [d EXCEPT !.timer = cooldown]

async_cancel(d) == [d EXCEPT !.timer = NoTimer, !.execute_at_end = FALSE]

\* Debouncer.async_call up to its first suspension: now = TRUE when the
\* caller is to run the job itself.
async_schedule_or_call_now(d) ==
    IF d.timer # NoTimer
    THEN [deb |-> [d EXCEPT !.execute_at_end = TRUE], now |-> FALSE, kept |-> TRUE]
    ELSE IF d.locked
    THEN [deb |-> d, now |-> FALSE, kept |-> FALSE]
    ELSE IF ~immediate
    THEN [deb |-> schedule_timer([d EXCEPT !.execute_at_end = TRUE]),
          now |-> FALSE, kept |-> TRUE]
    ELSE [deb |-> [d EXCEPT !.locked = TRUE], now |-> TRUE, kept |-> TRUE]

(***************************************************************************)
(* _async_update_data (lines 35-44), run for the debouncer's job or for    *)
(* the interval timer.                                                     *)
(***************************************************************************)
Runners == {"debounce", "poll"}

PyEmptyDict == [t |-> "dict", v |-> <<>>]

NoResult == [kind |-> "none", exc |-> "none", cause |-> "none", value |-> PyNone]
Returned(val) == [kind |-> "return", exc |-> "none", cause |-> "none", value |-> val]
Raised(exc, cause) == [kind |-> "raise", exc |-> exc, cause |-> cause, value |-> PyNone]

\* f"{DOMAIN}-{x}"
FormatName(x) == <<const_DOMAIN, "-", x.v>>

\* calls counts the calls of the device client's refresh in the invocation.
IdleUpdate == [pc |-> "idle", calls |-> 0]

\* The invocation that ended last: its calls of the device client's refresh,
\* what that did ("returned" or the error it raised) and how
\* _async_update_data ended.
NoUpdate == [calls |-> 0, outcome |-> "none", result |-> NoResult]

\* line 38, up to the await: the device client's refresh is called.
UpdateStarted(r) ==
    [upd EXCEPT ![r] = [pc |-> "refreshing", calls |-> 1]]

\* The job has ended: Debouncer's "finally: self._schedule_timer()", release
\* of the execute lock, and resumption of a caller awaiting the job.
JobEnded(r) ==
    /\ deb' = IF r = "debounce"
              THEN schedule_timer([deb EXCEPT !.locked = FALSE])
              ELSE deb
    /\ cmd' = [c \in DOMAIN cmd |->
                 IF r = "debounce" /\ cmd[c].pc = "awaiting_refresh"
                 THEN [cmd[c] EXCEPT !.pc = "done"]
                 ELSE cmd[c]]

\* lines 38-41: refresh() returned.
async_update_data_return_BugKeepName(r, k, wear) ==
    /\ upd[r].pc = "refreshing"
    /\ dev' = Refreshed(dev, k, wear)
    /\ name' = name
    /\ upd' = [upd EXCEPT ![r] = IdleUpdate]
    /\ hist' = [hist EXCEPT !.everUpdated = TRUE,
                            !.lastUpdate = [calls |-> upd[r].calls,
                                            outcome |-> "returned",
                                            result |-> Returned(PyEmptyDict)]]
    /\ JobEnded(r)
    /\ lastRead' = NoRead
    /\ UNCHANGED <<manufacturer, env>>

async_update_data_return(r, k, wear) ==
    /\ upd[r].pc = "refreshing"
    /\ dev' = Refreshed(dev, k, wear)
    /\ name' = FormatName(dev'.name)
    /\ upd' = [upd EXCEPT ![r] = IdleUpdate]
    /\ hist' = [hist EXCEPT !.everUpdated = TRUE,
                            !.lastUpdate = [calls |-> upd[r].calls,
                                            outcome |-> "returned",
                                            result |-> Returned(PyEmptyDict)]]
    /\ JobEnded(r)
    /\ lastRead' = NoRead
    /\ UNCHANGED <<manufacturer, env>>

\* lines 38, 42-44: refresh() raised e.
async_update_data_raise(r, e) ==
    /\ upd[r].pc = "refreshing"
    /\ upd' = [upd EXCEPT ![r] = IdleUpdate]
    /\ hist' = [hist EXCEPT !.lastUpdate =
                    [calls |-> upd[r].calls, outcome |-> e,
                     result |-> IF IsException(e)
                                THEN Raised("UpdateFailed", e)
                                ELSE Raised(e, "none")]]
    /\ JobEnded(r)
    /\ lastRead' = NoRead
    /\ UNCHANGED <<dev, name, manufacturer, env>>

(***************************************************************************)
(* The host's timers (lines 29-32).                                        *)
(***************************************************************************)
\* The cooldown passes on the pending timer.  Nothing else in the system is
\* timed, so the clock advances by whole cooldowns.
Tick ==
    /\ deb.timer > 0
    /\ deb' = [deb EXCEPT !.timer = @ - cooldown]
    /\ lastRead' = NoRead
    /\ UNCHANGED <<dev, name, manufacturer, cmd, upd, hist, env>>

\* The cooldown timer ends (Debouncer._on_debounce): the job, the
\* coordinator's refresh, runs if it was asked for and is not running.
TimerFire ==
    /\ deb.timer = 0
    /\ IF deb.execute_at_end /\ ~deb.locked
       THEN /\ deb' = [timer |-> NoTimer, execute_at_end |-> FALSE, locked |-> TRUE]
            /\ upd' = UpdateStarted("debounce")
            /\ hist' = [hist EXCEPT !.debRefreshes = @ + 1,
                                    !.needsRefresh = FALSE,
                                    !.lastServed = hist.pending,
                                    !.pending = 0]
       ELSE /\ deb' = [deb EXCEPT !.timer = NoTimer, !.execute_at_end = FALSE]
            /\ UNCHANGED <<upd, hist>>
    /\ lastRead' = NoRead
    /\ UNCHANGED <<dev, name, manufacturer, cmd, env>>

\* update_interval=timedelta(minutes=5): the interval timer ends and the
\* coordinator refreshes, cancelling what the debouncer holds.  The host
\* arms the interval timer at the end of a refresh, and only while the
\* coordinator has listeners and polling is not disabled (env.polling).
IntervalRefresh ==
    /\ env.polling
    /\ \A r \in Runners : upd[r].pc = "idle"
    /\ deb' = async_cancel(deb)
    /\ upd' = UpdateStarted("poll")
    /\ hist' = [hist EXCEPT !.needsRefresh = FALSE, !.pending = 0]
    /\ lastRead' = NoRead
    /\ UNCHANGED <<dev, name, manufacturer, cmd, env>>

(***************************************************************************)
(* The commands (lines 160-186).  Each is a coroutine: it runs to the      *)
(* await of the device call, and resumes when that call returns or raises. *)
(***************************************************************************)
\* method and arg are the coroutine's locals and calls the device call it
\* awaits; nCalls and reqs count its device calls and refresh requests,
\* outcome is what the device call did ("returned" or the error it raised)
\* and error what the coroutine raised to its caller.
IdleCommand ==
    [pc |-> "idle", method |-> "none", arg |-> PyNone, calls |-> <<>>,
     nCalls |-> 0, reqs |-> 0, outcome |-> "none", error |-> "none"]

\* The coroutine has ended with pc: its frame is gone.
Ended(k, pc, reqs, outcome, error) ==
    [pc |-> pc, method |-> "none", arg |-> PyNone, calls |-> <<>>,
     nCalls |-> k.nCalls, reqs |-> reqs, outcome |-> outcome, error |-> error]

\* Invocation c of coordinator method m starts and calls the device
\* client's devMethod with argument a.
CallDevice(c, m, devMethod, a) ==
    /\ c <= env.cmds
    /\ cmd[c].pc = "idle"
    /\ IF c = 1 THEN TRUE ELSE cmd[c - 1].pc # "idle"
    /\ cmd' = [cmd EXCEPT ![c] = [pc |-> "calling", method |-> m, arg |-> a,
                                  calls |-> <<[method |-> devMethod, arg |-> a]>>,
                                  nCalls |-> 1, reqs |-> 0, outcome |-> "none",
                                  error |-> "none"]]
    /\ lastRead' = NoRead
    /\ UNCHANGED <<dev, name, manufacturer, deb, upd, hist, env>>

set_fan_speed(c, new_speed) == CallDevice(c, "set_fan_speed", "set_fan_speed", new_speed)
set_running(c, running) == CallDevice(c, "set_running", "set_running", running)
set_brightness(c, brightness_) == CallDevice(c, "set_brightness", "set_brightness", brightness_)
set_child_lock(c, locked) == CallDevice(c, "set_child_lock", "set_child_lock", locked)
set_night_mode_BugChildLock(c, mode) == CallDevice(c, "set_night_mode", "set_child_lock", mode)
set_night_mode(c, mode) == CallDevice(c, "set_night_mode", "set_night_mode", mode)
set_fan_auto_mode(c, value) == CallDevice(c, "set_fan_auto_mode", "set_fan_auto_mode", value)
set_wick_dry_mode(c, value) == CallDevice(c, "set_wick_dry_mode", "set_wick_dry_mode", value)

\* await self.async_request_refresh(): the debouncer's async_call.  With
\* immediate=False it returns without suspending.
async_request_refresh(c, outcome) ==
    LET r == async_schedule_or_call_now(deb) IN
    /\ deb' = r.deb
    /\ cmd' = [cmd EXCEPT ![c] = Ended(@, IF r.now THEN "awaiting_refresh" ELSE "done",
                                        @.reqs + 1, outcome, "none")]
    /\ upd' = IF r.now THEN UpdateStarted("debounce") ELSE upd
    /\ hist' = [hist EXCEPT !.reqs = @ + 1,
                            !.needsRefresh = ~r.now,
                            !.debRefreshes = IF r.now THEN @ + 1 ELSE @,
                            !.pending = IF r.kept /\ ~r.now THEN @ + 1 ELSE @]

\* The device call of invocation c returned; a client that keeps what it
\* sent (env.records) has recorded the new value, another one learns it from
\* the next refresh.  The coroutine goes on to request the refresh.
CommandResume(c) ==
    /\ cmd[c].pc = "calling"
    /\ dev' = IF env.records
              THEN DeviceApplied(dev, cmd[c].calls[1].method, cmd[c].calls[1].arg)
              ELSE dev
    /\ async_request_refresh(c, "returned")
    /\ lastRead' = NoRead
    /\ UNCHANGED <<name, manufacturer, env>>

\* The device call of invocation c raised e: the coroutine ends with e.
CommandRaise_BugFinally(c, e) ==
    /\ cmd[c].pc = "calling"
    /\ async_request_refresh(c, e)
    /\ lastRead' = NoRead
    /\ UNCHANGED <<dev, name, manufacturer, env>>

CommandRaise(c, e) ==
    /\ cmd[c].pc = "calling"
    /\ cmd' = [cmd EXCEPT ![c] = Ended(@, "raised", @.reqs, e, e)]
    /\ lastRead' = NoRead
    /\ UNCHANGED <<dev, name, manufacturer, deb, upd, hist, env>>

(***************************************************************************)
(* Reading a property (lines 46-158).                                      *)
(***************************************************************************)
PropertyValue(p) ==
    CASE p = "id" -> id
      [] p = "device_name" -> device_name
      [] p = "manufacturer" -> manufacturer_prop
      [] p = "model" -> model
      [] p = "fan_speed" -> fan_speed
      [] p = "speed_count" -> speed_count
      [] p = "is_on" -> is_on
      [] p = "brightness" -> brightness
      [] p = "child_lock" -> child_lock
      [] p = "night_mode" -> night_mode
      [] p = "temperature" -> temperature
      [] p = "humidity" -> humidity
      [] p = "voc" -> voc
      [] p = "pm1" -> pm1
      [] p = "pm10" -> pm10
      [] p = "pm25" -> pm25
      [] p = "co2" -> co2
      [] p = "online" -> online
      [] p = "fan_auto_mode" -> fan_auto_mode
      [] p = "wick_dry_mode" -> wick_dry_mode
      [] p = "water_shortage" -> water_shortage
      [] p = "filter_expired" -> filter_expired

\* A reader evaluates the getters without suspending (an entity writing its
\* state): lastRead holds what each returned.
ReadProperties_BugRefresh ==
    /\ lastRead' = [read |-> TRUE, values |-> [p \in Properties |-> PropertyValue(p)]]
    /\ deb' = async_schedule_or_call_now(deb).deb
    /\ UNCHANGED <<dev, name, manufacturer, cmd, upd, hist, env>>

ReadProperties ==
    /\ lastRead' = [read |-> TRUE, values |-> [p \in Properties |-> PropertyValue(p)]]
    /\ UNCHANGED <<dev, name, manufacturer, cmd, deb, upd, hist, env>>

(***************************************************************************)
(* __init__ (lines 18-33), for a device client in one of the given states, *)
(* and the runs.                                                           *)
(***************************************************************************)
InitWith(devices, envs) ==
    /\ dev \in devices
    /\ name = FormatName(dev.uuid)
    /\ manufacturer = PyStr("BlueAir")
    /\ cmd = [c \in 1..MaxCmds |-> IdleCommand]
    /\ deb = [timer |-> NoTimer, execute_at_end |-> FALSE, locked |-> FALSE]
    /\ upd = [r \in Runners |-> IdleUpdate]
    /\ hist = [reqs |-> 0, debRefreshes |-> 0,
               needsRefresh |-> FALSE, pending |-> 0, lastServed |-> 0,
               everUpdated |-> FALSE, lastUpdate |-> NoUpdate]
    /\ lastRead = NoRead
    /\ env \in envs

Init ==
    InitWith({InitialDevice("MAX_211I", PyNone, PyNone)},
             {[cmds |-> MaxCmds, polling |-> TRUE, records |-> FALSE]})

Commands ==
    \E c \in 1..MaxCmds :
        \/ \E a \in ArgsOf("set_fan_speed") : set_fan_speed(c, a)
        \/ \E a \in ArgsOf("set_running") : set_running(c, a)
        \/ \E a \in ArgsOf("set_brightness") : set_brightness(c, a)
        \/ \E a \in ArgsOf("set_child_lock") : set_child_lock(c, a)
        \/ \E a \in ArgsOf("set_night_mode") : set_night_mode(c, a)
        \/ \E a \in ArgsOf("set_fan_auto_mode") : set_fan_auto_mode(c, a)
        \/ \E a \in ArgsOf("set_wick_dry_mode") : set_wick_dry_mode(c, a)
        \/ CommandResume(c)
        \/ \E e \in Errors : CommandRaise(c, e)

Updates ==
    \E r \in Runners :
        \/ \E k \in 0..MaxSnap, wear \in BOOLEAN : async_update_data_return(r, k, wear)
        \/ \E e \in Errors : async_update_data_raise(r, e)

Next ==
    \/ Commands
    \/ Updates
    \/ Tick
    \/ TimerFire
    \/ IntervalRefresh

Spec == Init /\ [][Next]_vars

(***************************************************************************)
(* The same system with property reads, for a device client of any model   *)
(* and with any filter and wick usage.                                     *)
(***************************************************************************)
PropDevices ==
    {InitialDevice(m, PyNone, PyNone) : m \in ModelEnum}
    \cup {InitialDevice("UNKNOWN", f, w) : f \in UsageValues, w \in UsageValues}

PropInit == InitWith(PropDevices, {[cmds |-> MaxPropCmds, polling |-> FALSE, records |-> TRUE]})

PropNext == Commands \/ Updates \/ Tick \/ TimerFire \/ ReadProperties

PropSpec == PropInit /\ [][PropNext]_vars

(***************************************************************************)
(* The event loop runs what is ready: a pending timer counts down and      *)
(* ends, an armed interval timer ends, and a call into the device client   *)
(* returns or raises.  Commands are up to the callers.                     *)
(***************************************************************************)
CallCompletes ==
    \E c \in 1..MaxCmds :
        \/ CommandResume(c)
        \/ \E e \in Errors : CommandRaise(c, e)

FairInit ==
    InitWith({InitialDevice("MAX_211I", PyNone, PyNone)},
             {[cmds |-> MaxCmds, polling |-> b, records |-> FALSE] : b \in BOOLEAN})

FairSpec ==
    /\ FairInit /\ [][Next]_vars
    /\ WF_vars(Tick) /\ WF_vars(TimerFire) /\ WF_vars(IntervalRefresh)
    /\ WF_vars(Updates) /\ WF_vars(CallCompletes)

(***************************************************************************)
(*                               The claims                                *)
(***************************************************************************)

\* C4: every command whose device call returned is eventually followed by a
\* device refresh that starts after that return (needsRefresh is set when a
\* command's device call returns and cleared when a refresh starts), also
\* when the command completes while a refresh is in progress.
C4_CompletedCommandIsRefreshed == hist.needsRefresh ~> ~hist.needsRefresh

\* What holds of every invocation c whatever its device call does: the
\* device call it awaits is the method of the same name with the argument
\* it was given, it is the only one, no refresh is requested before the
\* call has returned, and none is requested twice.
ForwardsOnce(c) ==
    /\ cmd[c].pc = "idle" => cmd[c].nCalls = 0 /\ cmd[c].reqs = 0
    /\ cmd[c].pc = "calling" =>
          /\ cmd[c].calls = <<[method |-> cmd[c].method, arg |-> cmd[c].arg]>>
          /\ cmd[c].nCalls = 1
          /\ cmd[c].reqs = 0
    /\ cmd[c].reqs <= 1
    /\ cmd[c].reqs = 1 => cmd[c].outcome = "returned"

\* Requests are neither dropped nor merged: the coordinator has been asked
\* for as many refreshes as invocations requested one.
RequestsCounted ==
    hist.reqs = Cardinality({c \in 1..MaxCmds : cmd[c].reqs = 1})

\* C1, as stated: every invocation calls the device client's method of the
\* same name once with the unchanged argument and then requests a refresh
\* once, also with several commands in flight: once its device call has
\* completed, an invocation has made one device call and one request.
C1_EveryInvocationRequestsRefresh ==
    /\ \A c \in 1..MaxCmds :
          /\ ForwardsOnce(c)
          /\ cmd[c].outcome # "none" => cmd[c].nCalls = 1 /\ cmd[c].reqs = 1
    /\ RequestsCounted

\* C1, amended: the refresh is requested once when the device call returned;
\* an invocation whose device call raised has made its one device call and
\* requests nothing.
C1_ForwardsThenRequestsRefresh ==
    /\ \A c \in 1..MaxCmds :
          /\ ForwardsOnce(c)
          /\ cmd[c].outcome = "returned" => cmd[c].nCalls = 1 /\ cmd[c].reqs = 1
          /\ cmd[c].outcome \in Errors => cmd[c].nCalls = 1
    /\ RequestsCounted

\* Invocation 2 was started while invocation 1 was in flight and has ended
\* with its request made; invocation 1 still awaits its device call.
C1_Witness ==
    /\ cmd[1].pc = "calling"
    /\ cmd[2].pc = "done" /\ cmd[2].reqs = 1 /\ cmd[2].nCalls = 1

\* C10: when the device call of a command raises, the command ends raising
\* that error, with its one device call made and no refresh requested, and
\* neither that step nor the invocation changes the debouncer, the refreshes
\* or the coordinator's name.
C10_RaisePropagates ==
    [][\A c \in 1..MaxCmds :
          /\ (cmd[c].outcome = "none" /\ cmd'[c].outcome \in Errors) =>
                /\ cmd'[c].pc = "raised"
                /\ cmd'[c].error = cmd'[c].outcome
                /\ cmd'[c].nCalls = 1
                /\ cmd'[c].reqs = 0
                /\ UNCHANGED <<deb, upd, hist, name>>
          /\ (cmd[c].pc = "idle" /\ cmd'[c].pc # "idle") =>
                UNCHANGED <<deb, upd, hist, name>>]_vars

\* Invocation 2 has raised CancelledError while the refresh requested by
\* invocation 1 is still pending in the debouncer.
C10_Witness ==
    /\ cmd[2].pc = "raised" /\ cmd[2].error = "CancelledError"
    /\ cmd[1].pc = "done"
    /\ deb.timer > 0 /\ deb.execute_at_end

\* C5: refresh requests are debounced with a cooldown of 5 seconds and
\* immediate=False: the step that requests a refresh starts none and, with
\* no timer pending and no job running, arms the timer with 5 seconds; a
\* refresh of the debouncer starts only in the step in which the timer ends
\* with the flag set, and then exactly one starts, with one call of the
\* device client's refresh; the refreshes so started never outnumber the
\* requests, nor these the commands invoked.
C5_Debounced ==
    [][/\ hist'.debRefreshes <= hist'.reqs
       /\ hist'.reqs <= Cardinality({c \in 1..MaxCmds : cmd'[c].pc # "idle"})
       /\ hist'.reqs # hist.reqs =>
             /\ hist'.debRefreshes = hist.debRefreshes
             /\ upd' = upd
             /\ (deb.timer = NoTimer /\ ~deb.locked) =>
                    (deb'.timer = 5 /\ deb'.execute_at_end)
       /\ hist'.debRefreshes # hist.debRefreshes =>
             /\ deb.timer = 0 /\ deb.execute_at_end
             /\ hist'.debRefreshes = hist.debRefreshes + 1
             /\ hist'.reqs = hist.reqs
             /\ upd'["debounce"].pc = "refreshing" /\ upd'["debounce"].calls = 1
       /\ (deb.timer = 0 /\ deb.execute_at_end /\ deb'.timer = NoTimer
             /\ upd'["poll"] = upd["poll"]) =>
             hist'.debRefreshes = hist.debRefreshes + 1]_vars

\* Two requests arrived while one timer was pending and its end started the
\* one refresh the debouncer has run.
C5_Witness ==
    /\ hist.lastServed = 2 /\ hist.reqs = 2
    /\ hist.debRefreshes = 1

\* What holds of every _async_update_data that ends: it has called the
\* device client's refresh once; if that call returned, it returns an empty
\* mapping and the name is DOMAIN-<device name>; and the name is
\* DOMAIN-<device uuid> as long as no update has succeeded.
UpdateEndsWell(r) ==
    /\ hist'.lastUpdate.calls = 1
    /\ hist'.lastUpdate.outcome = "returned" =>
          /\ hist'.lastUpdate.result.kind = "return"
          /\ hist'.lastUpdate.result.value = [t |-> "dict", v |-> <<>>]
          /\ name' = <<const_DOMAIN, "-", dev'.name.v>>
    /\ ~hist'.everUpdated => name' = <<const_DOMAIN, "-", dev'.uuid.v>>

UpdateEnds(r) == upd[r].pc = "refreshing" /\ upd'[r].pc = "idle"

\* C9, as stated: _async_update_data calls the device client's refresh once;
\* whatever that call raises, the update ends raising UpdateFailed that
\* wraps it, with the name unchanged; if nothing raises it returns an empty
\* mapping and the name becomes DOMAIN-<device name>.
C9_AnyErrorBecomesUpdateFailed ==
    [][\A r \in Runners : UpdateEnds(r) =>
          /\ UpdateEndsWell(r)
          /\ hist'.lastUpdate.outcome \in Errors =>
                /\ hist'.lastUpdate.result.kind = "raise"
                /\ hist'.lastUpdate.result.exc = "UpdateFailed"
                /\ hist'.lastUpdate.result.cause = hist'.lastUpdate.outcome
                /\ name' = name]_vars

\* C9, amended: what "except Exception" catches is wrapped in UpdateFailed;
\* an error that is no Exception (asyncio.CancelledError) leaves the update
\* as it is, unwrapped; the name is unchanged in both cases.
C9_UpdateOutcome ==
    [][\A r \in Runners : UpdateEnds(r) =>
          /\ UpdateEndsWell(r)
          /\ (hist'.lastUpdate.outcome \in Errors
                /\ hist'.lastUpdate.outcome # "CancelledError") =>
                /\ hist'.lastUpdate.result.kind = "raise"
                /\ hist'.lastUpdate.result.exc = "UpdateFailed"
                /\ hist'.lastUpdate.result.cause = hist'.lastUpdate.outcome
                /\ name' = name
          /\ hist'.lastUpdate.outcome = "CancelledError" =>
                /\ hist'.lastUpdate.result.kind = "raise"
                /\ hist'.lastUpdate.result.exc = "CancelledError"
                /\ name' = name]_vars

\* An update has failed with UpdateFailed after an earlier one had set the
\* name to DOMAIN-Office, and the name is still that.
C9_Witness ==
    /\ hist.lastUpdate.calls = 1
    /\ hist.lastUpdate.result.exc = "UpdateFailed"
    /\ hist.lastUpdate.result.cause = "TimeoutError"
    /\ hist.everUpdated
    /\ name = <<const_DOMAIN, "-", "Office">>

(***************************************************************************)
(* The claims about the properties, checked under PropSpec.                *)
(***************************************************************************)
ForwardedAttribute ==
    [id |-> "uuid", device_name |-> "name", fan_speed |-> "fan_speed",
     is_on |-> "running", brightness |-> "brightness",
     child_lock |-> "child_lock", night_mode |-> "night_mode",
     temperature |-> "temperature", humidity |-> "humidity", voc |-> "tVOC",
     pm1 |-> "pm1", pm10 |-> "pm10", pm25 |-> "pm2_5",
     online |-> "wifi_working", fan_auto_mode |-> "fan_auto_mode",
     wick_dry_mode |-> "wick_dry_mode", water_shortage |-> "water_shortage"]

\* C2: in every state each forwarding property equals the device client's
\* current value of the attribute it maps (model: model.model_name), and a
\* read returns that value in the state it is made in.
C2_PropertiesForward ==
    [][/\ \A p \in DOMAIN ForwardedAttribute :
             PropertyValue(p)' = dev'[ForwardedAttribute[p]]
       /\ PropertyValue("model")' = dev'.model.model_name
       /\ lastRead'.read =>
             /\ \A p \in DOMAIN ForwardedAttribute :
                    lastRead'.values[p] = dev[ForwardedAttribute[p]]
             /\ lastRead'.values["model"] = dev.model.model_name]_vars

\* fan_speed was read as 2, the value a command made the device client
\* record, while no update of the coordinator has completed.
C2_Witness ==
    /\ lastRead.values["fan_speed"] = PyInt(2)
    /\ dev.fan_speed = PyInt(2)
    /\ ~hist.everUpdated
    /\ hist.debRefreshes = 0

\* C3: a step that reads the properties (speed_count, filter_expired and co2
\* among them) changes nothing but the values returned:
\* not the device client's attributes, the name, the manufacturer, the
\* debouncer, the commands (no device call) nor the refreshes and requests.
C3_ReadsChangeNothing ==
    [][lastRead'.read =>
          UNCHANGED <<dev, name, manufacturer, deb, cmd, upd, hist>>]_vars

\* The properties were read while the refresh a command requested was
\* pending: the value the command set was returned and the timer is running.
C3_Witness ==
    /\ lastRead.read /\ lastRead.values["is_on"] = PyBool(TRUE)
    /\ hist.reqs = 1 /\ hist.debRefreshes = 0
    /\ deb.timer = cooldown /\ deb.execute_at_end

\* C6: speed_count is 64 for HUMIDIFIER_H35I, 91 for MAX_211I, MAX_311I,
\* PROTECT_7440I and PROTECT_7470I, 4 for T10I and 100 for any other model,
\* in every state, and a read of it returns that.
SpeedCountTable(m) ==
    CASE m = "HUMIDIFIER_H35I" -> 64
      [] m \in {"MAX_211I", "MAX_311I", "PROTECT_7440I", "PROTECT_7470I"} -> 91
      [] m = "T10I" -> 4
      [] OTHER -> 100

C6_SpeedCountByModel ==
    /\ speed_count = [t |-> "int", v |-> SpeedCountTable(dev.model.member)]
    /\ speed_count.v \in {4, 64, 91, 100}
    /\ lastRead.read =>
          lastRead.values["speed_count"] =
              [t |-> "int", v |-> SpeedCountTable(dev.model.member)]

\* speed_count was read as 4 on a T10I after a command and its refresh.
C6_Witness ==
    /\ lastRead.values["speed_count"] = PyInt(4)
    /\ dev.model.member = "T10I"
    /\ hist.reqs = 1 /\ hist.everUpdated

\* C7: when filter_usage_percentage is neither NotImplemented nor None,
\* filter_expired is (filter_usage_percentage >= FILTER_EXPIRED_THRESHOLD)
\* whatever wick_usage_percentage is; wick_usage_percentage is compared only
\* otherwise; a usage equal to the threshold counts as expired.
Usable(u) == u # PyNotImplemented /\ u # PyNone

C7_FilterBeforeWick ==
    LET f == dev.filter_usage_percentage
        w == dev.wick_usage_percentage
    IN /\ Usable(f) =>
             filter_expired = [t |-> "bool", v |-> f.v >= FILTER_EXPIRED_THRESHOLD]
       /\ (~Usable(f) /\ Usable(w)) =>
             filter_expired = [t |-> "bool", v |-> w.v >= FILTER_EXPIRED_THRESHOLD]
       /\ (Usable(f) /\ f.v = FILTER_EXPIRED_THRESHOLD) =>
             filter_expired = [t |-> "bool", v |-> TRUE]

\* filter_expired was read as True with the filter at the threshold and the
\* wick below it.
C7_Witness ==
    /\ lastRead.values["filter_expired"] = PyBool(TRUE)
    /\ dev.filter_usage_percentage = PyInt(FILTER_EXPIRED_THRESHOLD)
    /\ dev.wick_usage_percentage = PyInt(FILTER_EXPIRED_THRESHOLD - 1)

\* C8: filter_expired is a boolean for every filter_usage_percentage and
\* wick_usage_percentage among NotImplemented, None and a number: what a
\* read of it returns is True or False.
C8_FilterExpiredIsBool ==
    lastRead.read => lastRead.values["filter_expired"].t = "bool"

=============================================================================
